---------------------------- MODULE Spec2Model ----------------------------
(***************************************************************************)
(* A model of setto-labs/crypto-utils: the EVM permit pipelines            *)
(* (src/evm-permit, src/evm-permit2).                                      *)
(*                                                                         *)
(* Strings that the code slices are sequences of characters.  A character  *)
(* is a hex digit 0..15 or the letter x (XCh), so "0x1b" is <<0,XCh,1,11>>.*)
(* A decoded text (a token name, a version) is the sequence of the char    *)
(* codes String.fromCharCode was given.  NaN is the number -1, which no    *)
(* parse produces otherwise.  Integers wider than TLC's are kept as their  *)
(* hex digits without leading zeros (BigInt).                              *)
(***************************************************************************)
EXTENDS Integers, Sequences, FiniteSets, TLC

(***************************************************************************)
(* JavaScript string and number primitives, as the code uses them.         *)
(***************************************************************************)
NaN == -1
XCh == 16

Min(a, b) == IF a < b THEN a ELSE b

IsNaN(n) == n = NaN

\* a + b and a * b of JavaScript numbers: NaN is absorbing.
Plus(a, b) == IF IsNaN(a) \/ IsNaN(b) THEN NaN ELSE a + b
Times(a, b) == IF IsNaN(a) \/ IsNaN(b) THEN NaN ELSE a * b

\* a < b of JavaScript numbers: false when either is NaN.
Less(a, b) == ~IsNaN(a) /\ ~IsNaN(b) /\ a < b

\* String.prototype.slice(from, to) for indices >= 0 or NaN (NaN is 0);
\* indices past the end are clamped, from >= to gives "".
Slice(s, from, to) ==
    LET f == IF IsNaN(from) THEN 0 ELSE Min(from, Len(s))
        t == IF IsNaN(to) THEN 0 ELSE Min(to, Len(s))
    IN  IF f >= t THEN <<>> ELSE SubSeq(s, f + 1, t)

\* String.prototype.slice(from)
SliceFrom(s, from) == Slice(s, from, Len(s))

Zeros(n) == [i \in 1..n |-> 0]

\* String.prototype.padStart(n, '0')
PadStart(s, n) == IF Len(s) >= n THEN s ELSE Zeros(n - Len(s)) \o s

\* The longest prefix of s made of hex digits.
RECURSIVE HexPrefix(_)
HexPrefix(s) ==
    IF s = <<>> \/ Head(s) = XCh THEN <<>> ELSE <<Head(s)>> \o HexPrefix(Tail(s))

\* The number a sequence of hex digits denotes.
RECURSIVE HexVal(_)
HexVal(ds) ==
    IF ds = <<>> THEN 0 ELSE 16 * HexVal(SubSeq(ds, 1, Len(ds) - 1)) + ds[Len(ds)]

\* A sequence of hex digits without its leading zeros.
RECURSIVE StripZeros(_)
StripZeros(ds) ==
    IF ds # <<>> /\ Head(ds) = 0 THEN StripZeros(Tail(ds)) ELSE ds

\* parseInt(s, 16): an optional 0x, then the longest run of hex digits;
\* NaN when there is none.
ParseInt16(s) ==
    LET body == IF Len(s) >= 2 /\ s[1] = 0 /\ s[2] = XCh THEN SliceFrom(s, 2) ELSE s
        ds   == StripZeros(HexPrefix(body))
    IN  IF HexPrefix(body) = <<>> THEN NaN ELSE HexVal(ds)

\* BigInt(s) for s = '0x' + digits: a SyntaxError unless s is 0x followed by
\* one hex digit or more; the value is kept as its digits.
BigIntThrows(s) ==
    \/ Len(s) < 3
    \/ s[1] # 0
    \/ s[2] # XCh
    \/ \E i \in 3..Len(s) : s[i] = XCh
BigIntOf(s) == StripZeros(SliceFrom(s, 2))

\* String.prototype.replace('0x', ''): the first occurrence removed.
RECURSIVE Replace0x(_)
Replace0x(s) ==
    IF Len(s) < 2 THEN s
    ELSE IF s[1] = 0 /\ s[2] = XCh THEN SliceFrom(s, 2)
    ELSE <<Head(s)>> \o Replace0x(Tail(s))

\* hexToString: one char code for every two characters (the last one may be
\* a single character); String.fromCharCode(NaN) is the char code 0.
RECURSIVE hexToString(_)
hexToString(hex) ==
    IF hex = <<>> THEN <<>>
    ELSE LET c == ParseInt16(Slice(hex, 0, 2))
         IN  <<IF IsNaN(c) THEN 0 ELSE c>> \o hexToString(SliceFrom(hex, 2))


(***************************************************************************)
(* Constants of the code.                                                  *)
(***************************************************************************)
NONCES_SELECTOR == "0x7ecebe00"
NAME_SELECTOR == "0x06fdde03"
EIP712_DOMAIN_SELECTOR == "0x84b0196e"
VERSION_SELECTOR == "VERSION_SELECTOR"
PERMIT2_ALLOWANCE_SELECTOR == "0x927da105"
PERMIT2_DOMAIN_NAME == "Permit2"

\* '1', as the char codes of its characters.
DEFAULT_PERMIT_VERSION == <<49>>

\* A parameter the caller left out, and what JavaScript takes for false.
Undefined == "undefined"
Falsy(x) == x \in {Undefined, ""}

\* The 0x prefix.
Ox == <<0, XCh>>

(***************************************************************************)
(* The decoders.                                                           *)
(***************************************************************************)

\* getTokenName, after its eth_call resolved with result.
decodeTokenName(result) ==
    LET hex     == SliceFrom(result, 2)
        length  == ParseInt16(Slice(hex, 64, 128))
        nameHex == Slice(hex, 128, Plus(128, Times(length, 2)))
    IN  hexToString(nameHex)

\* getTokenVersion, after its eth_call resolved with result.
decodeTokenVersion(result) ==
    LET hex        == SliceFrom(result, 2)
        length     == ParseInt16(Slice(hex, 64, 128))
        versionHex == Slice(hex, 128, Plus(128, Times(length, 2)))
    IN  hexToString(versionHex)

\* decodeEip712Domain throws exactly when BigInt('0x' + chainIdHex) does.
decodeEip712DomainThrows(result) ==
    LET hex == SliceFrom(result, 2)
    IN  BigIntThrows(Ox \o Slice(hex, 192, 256))

\* One string field of the eip712Domain() response, reached through the
\* offset word at hex[head .. head + 64).
decodeDomainString(hex, head) ==
    LET offset    == Times(ParseInt16(Slice(hex, head, head + 64)), 2)
        lengthHex == Slice(hex, offset, Plus(offset, 64))
        length    == ParseInt16(lengthHex)
        dataHex   == Slice(hex, Plus(offset, 64),
                           Plus(Plus(offset, 64), Times(length, 2)))
    IN  hexToString(dataHex)

decodeEip712Domain(result, tokenAddress) ==
    LET hex        == SliceFrom(result, 2)
        chainIdHex == Slice(hex, 192, 256)
    IN  [name              |-> decodeDomainString(hex, 64),
         version           |-> decodeDomainString(hex, 128),
         chainId           |-> HexVal(BigIntOf(Ox \o chainIdHex)),
         verifyingContract |-> tokenAddress]

\* decodeAllowanceResult throws when one of its three BigInt calls does.
decodeAllowanceResultThrows(result) ==
    LET hex == Replace0x(result)
    IN  \/ BigIntThrows(Ox \o Slice(hex, 0, 64))
        \/ BigIntThrows(Ox \o Slice(hex, 64, 128))
        \/ BigIntThrows(Ox \o Slice(hex, 128, 192))

\* amount is a bigint; expiration and nonce are Number(bigint), exact below
\* 2^53: all three are kept as their hex digits.
decodeAllowanceResult(result) ==
    LET hex == Replace0x(result)
    IN  [amount     |-> BigIntOf(Ox \o Slice(hex, 0, 64)),
         expiration |-> BigIntOf(Ox \o Slice(hex, 64, 128)),
         nonce      |-> BigIntOf(Ox \o Slice(hex, 128, 192))]

parseSignature(signature) ==
    LET sig == SliceFrom(signature, 2)
        v   == ParseInt16(Slice(sig, 128, 130))
    IN  [v |-> IF Less(v, 27) THEN v + 27 ELSE v,
         r |-> Ox \o Slice(sig, 0, 64),
         s |-> Ox \o Slice(sig, 64, 128)]

(***************************************************************************)
(* What a contract or a wallet may answer: ABI encodings.                  *)
(***************************************************************************)

\* The hex digits of n, at least one.
RECURSIVE ToHex(_)
ToHex(n) == IF n < 16 THEN <<n>> ELSE ToHex(n \div 16) \o <<n % 16>>

\* A 32-byte word holding n, right-aligned.
Word(n) == PadStart(ToHex(n), 64)

\* The hex of a sequence of bytes.
RECURSIVE BytesHex(_)
BytesHex(bs) ==
    IF bs = <<>> THEN <<>>
    ELSE <<Head(bs) \div 16, Head(bs) % 16>> \o BytesHex(Tail(bs))

\* [length][data], the data padded on the right to whole words.
EncString(bs) ==
    LET data == BytesHex(bs)
        pad  == (64 - (Len(data) % 64)) % 64
    IN  Word(Len(bs)) \o data \o Zeros(pad)

\* The return data of name() or version(): the offset 0x20, then the block.
EncStringReturn(bs) == Ox \o Word(32) \o EncString(bs)

\* The return data of eip712Domain(): (bytes1 fields, string name,
\* string version, uint256 chainId, address verifyingContract, bytes32 salt,
\* uint256[] extensions), with the strings of one word of data each.
EncEip712Domain(name, version, chainId) ==
    Ox \o (<<0, 15>> \o Zeros(62)) \o Word(224) \o Word(288) \o Word(chainId)
       \o Word(0) \o Word(0) \o Word(352)
       \o EncString(name) \o EncString(version) \o Word(0)


(***************************************************************************)
(* The state.  A flow is one call of an exported async function, suspended *)
(* at one await of provider.request at a time.                             *)
(***************************************************************************)
VARIABLES
    provider,    \* "arbitrary": may reject or answer malformed data; "wellBehaved"
    active,      \* the flows that run in this behaviour
    pc,          \* pc[p]: "idle", the await the flow is suspended at, or "done"
    op,          \* op[p]: the exported function the flow called
    args,        \* args[p]: its parameters
    loc,         \* loc[p]: its local variables
    log,         \* log[p]: the provider requests it has issued, in order
    sent,        \* sent[p]: the typed data it has sent for signing
    resp,        \* resp[p]: the answers it received: resp[p][i] answers log[p][i]
    ret,         \* ret[p]: what the call returned or threw
    chainNonce,  \* nonces(owner) of the token contract, on-chain
    seen,        \* seen[p]: the on-chain nonce p's nonces() call was answered from
    settled,     \* the flows whose permit the token contract has accepted
    win          \* win[i]: the wallet global of SUPPORTED_WALLETS[i] on window

vars == <<provider, active, pc, op, args, loc, log, sent, resp, ret,
          chainNonce, seen, settled, win>>

Procs == {1, 2}

(***************************************************************************)
(* Bounds and the inputs drawn.                                            *)
(***************************************************************************)
MaxNonce == 1
\* The longest byte array handed to uint8ArrayToBase64.
MaxBytes == 4

A1 == "0xa1"
A2 == "0xa2"
B0 == "0xb0"
T1 == "0x71"
SPENDER == "0x5e"
PERMIT2 == "0x000000000022D473030F116dDEE9F6B43aC78BA3"

\* An optional number: <<>> when left out.
Default(opt, d) == IF opt = <<>> THEN d ELSE opt[1]

SignerOpts == {Undefined, "", B0}
ChainIds == {1, 5}
TokenNames == {"USD Coin", "Tether"}
\* The clock (Date.now(), in ms) with the offsets the caller gives: left out,
\* or 1 minute and 2 days.
TimeOpts ==
    {[now |-> 1999, minutes |-> <<>>, days |-> <<>>],
     [now |-> 62000, minutes |-> <<1>>, days |-> <<2>>]}

\* Texts as char codes: "US", "2", "1.1", "USD Coin".
NameUS == <<85, 83>>
Version2 == <<50>>
Version11 == <<49, 46, 49>>
NameUSDCoin == <<85, 83, 68, 32, 67, 111, 105, 110>>

\* An answer of the provider: resolved with data, or rejected.
Resolved(d) == [ok |-> TRUE, data |-> d]
Rejected == [ok |-> FALSE, data |-> <<>>]
MayReject == IF provider = "arbitrary" THEN {Rejected} ELSE {}

AccountsAnswers ==
    IF provider = "arbitrary"
    THEN {Resolved(<<>>), Resolved(<<A1>>), Resolved(<<A2, A1>>)} \cup MayReject
    ELSE {Resolved(<<A1>>)}

RequestAccountsAnswers == {Resolved(<<>>), Resolved(<<A1>>)} \cup MayReject

\* eip712Domain(): well formed, of a token at version "2" and of one at
\* version "1.1"; cut inside the name's data; cut before the version's block;
\* no data at all.
GoodDomain == EncEip712Domain(NameUS, Version2, 5)
OtherDomain == EncEip712Domain(NameUSDCoin, Version11, 5)
Eip712DomainAnswers ==
    IF provider = "arbitrary"
    THEN {Resolved(GoodDomain), Resolved(OtherDomain),
          Resolved(Slice(GoodDomain, 0, 2 + 514)),
          Resolved(Slice(GoodDomain, 0, 2 + 576)), Resolved(Ox)} \cup MayReject
    ELSE {Resolved(GoodDomain)}

\* name(): well formed; cut inside the data; a length past the end; "USD Coin";
\* the block at the offset 0x40, after a word of zeros.
NameAnswers ==
    {Resolved(EncStringReturn(NameUS)),
     Resolved(Slice(EncStringReturn(NameUS), 0, 2 + 130)),
     Resolved(Ox \o Word(32) \o Word(40) \o BytesHex(NameUS) \o Zeros(60)),
     Resolved(EncStringReturn(NameUSDCoin)),
     Resolved(Ox \o Word(64) \o Word(0) \o EncString(NameUS))}
    \cup MayReject

VersionAnswers ==
    {Resolved(EncStringReturn(Version2)), Resolved(EncStringReturn(Version11)),
     Resolved(Ox)} \cup MayReject

ChainIdAnswers == {Resolved(Ox \o <<1>>), Resolved(Ox \o <<5>>)} \cup MayReject

\* A signature: r, s and the trailing byte.
Sig(v) == Ox \o [i \in 1..64 |-> 1] \o [i \in 1..64 |-> 2] \o BytesHex(<<v>>)
VBytes == {0, 1, 2, 27, 28, 37}
SignAnswers ==
    IF provider = "arbitrary"
    THEN {Resolved(Sig(v)) : v \in VBytes}
         \cup {Resolved(Slice(Sig(0), 0, 2 + 128)), Resolved(Slice(Sig(0), 0, 2 + 40)),
               Resolved(Ox)}
         \cup MayReject
    ELSE {Resolved(Sig(0)), Resolved(Sig(28))}

\* nonces(owner): the word holding the on-chain nonce.
NonceAnswers ==
    {Resolved(Ox \o Word(chainNonce))}
    \cup (IF provider = "arbitrary" THEN {Resolved(Ox)} ELSE {}) \cup MayReject

\* Permit2 allowance(owner, token, spender): three words.  An amount of
\* 10000, of 2^160; an expiration of 2^48; a nonce of 2^48; cut short.
Pow2Word(bit) ==
    [i \in 1..64 |-> IF i = 64 - (bit \div 4) THEN 1 ELSE 0]
AllowanceAnswers ==
    {Resolved(Ox \o Word(10000) \o Word(3600) \o Word(7)),
     Resolved(Ox \o Pow2Word(160) \o Word(3600) \o Word(7)),
     Resolved(Ox \o Word(10000) \o Pow2Word(48) \o Word(7)),
     Resolved(Ox \o Word(10000) \o Word(3600) \o Pow2Word(48)),
     Resolved(Ox \o Word(10000) \o Word(3600))}
    \cup MayReject

\* allowance(owner, spender) of the token: one word.  5000000, 999, 1000,
\* 2^56, 2^256 - 1, and no data at all.
ERC20AllowanceAnswers ==
    {Resolved(Ox \o Word(5000000)), Resolved(Ox \o Word(999)), Resolved(Ox \o Word(1000)),
     Resolved(Ox \o Pow2Word(56)), Resolved(Ox \o [i \in 1..64 |-> 15]), Resolved(Ox)}
    \cup MayReject

\* requiredAmount, a decimal string, as its digits: 1000000, 1000, 2^56 + 1.
RequiredAmounts ==
    {<<1, 0, 0, 0, 0, 0, 0>>, <<1, 0, 0, 0>>,
     <<7, 2, 0, 5, 7, 5, 9, 4, 0, 3, 7, 9, 2, 7, 9, 3, 7>>}

\* The inputs of isAllowanceSufficient: the clock in ms, an allowance as
\* decodeAllowanceResult gives it, the required amount (a bigint, as its hex
\* digits) and the buffer.
SufficiencyInputs ==
    {[now |-> 100000999,
      allowance |-> decodeAllowanceResult(Ox \o amount \o Word(100000 + ahead) \o Word(7)),
      requiredAmount |-> StripZeros(ToHex(1000)),
      bufferSeconds |-> buffer] :
        amount \in {Word(999), Word(1000), Word(10000), Pow2Word(160)},
        ahead \in {99, 100, 1799, 1800, 1801},
        buffer \in {<<>>, <<100>>}}

\* The inputs of isBlockhashValid: the clock in ms, an expiry at or after it,
\* and the buffer, left out or given.
BlockhashInputs ==
    {[now |-> 100000, expiresAt |-> 100000 + ahead, bufferMs |-> buffer] :
        ahead \in {0, 5000, 9999, 10000, 10001, 20000},
        buffer \in {<<>>, <<0>>, <<5000>>, <<10000>>}}

\* The Solana wallets: a wallet global is absent, or an object whose
\* isConnected and publicKey may be read, or one that throws when they are.
SUPPORTED_WALLETS == <<"phantom", "solflare", "okxwallet", "coinbaseSolana", "backpack">>
Null == "null"
K1 == "So1Key1"
K2 == "So1Key2"
WalletObject(isConnected, publicKey) ==
    [present |-> TRUE, throws |-> FALSE, isConnected |-> isConnected,
     publicKey |-> publicKey]
Absent == [present |-> FALSE, throws |-> FALSE, isConnected |-> FALSE, publicKey |-> Null]
Throwing == [present |-> TRUE, throws |-> TRUE, isConnected |-> FALSE, publicKey |-> Null]
NoWallets == <<Absent, Absent, Absent, Absent, Absent>>

\* What a wallet global may be when a call is made; the first two wallets may
\* also hold the key of an earlier session while disconnected.
WalletStates ==
    {Absent, Throwing, WalletObject(FALSE, Null), WalletObject(TRUE, K1),
     WalletObject(TRUE, K2)}
FirstWalletStates == WalletStates \cup {WalletObject(FALSE, K1)}
WalletConfigs ==
    FirstWalletStates \X FirstWalletStates \X WalletStates \X WalletStates \X WalletStates

\* connect(): resolves with a publicKey, or with none, or rejects.
ConnectAnswers == {Resolved(<<K1>>), Resolved(<<K2>>), Resolved(<<>>)} \cup MayReject

\* The provider passed to signDelegateTxWithTransaction, the serialized bytes
\* of the transaction, and what signTransaction answers: the serialized
\* bytes of the signed transaction.
SolProviderOpts ==
    {WalletObject(c, k) : c \in BOOLEAN, k \in {Null, K1}}
Transactions == {<<1, 2, 3>>}
SignTransactionAnswers ==
    {Resolved(<<>>), Resolved(<<77>>), Resolved(<<77, 97>>), Resolved(<<77, 97, 110>>),
     Resolved(<<255, 0, 16, 131, 250>>)} \cup MayReject

NoArgs ==
    [tokenAddress |-> "", chainId |-> 0, tokenName |-> "", spenderAddress |-> "",
     value |-> "", nonce |-> 0, deadlineMinutes |-> <<>>, signerAddress |-> Undefined,
     ownerAddress |-> "", permit2Address |-> "", allowanceAmount |-> "",
     expirationDays |-> <<>>, sigDeadlineMinutes |-> <<>>, now |-> 0,
     solProvider |-> Absent, transaction |-> <<>>, expectedAddress |-> "",
     window |-> NoWallets, requiredAmount |-> <<>>,
     allowance |-> [amount |-> <<>>, expiration |-> <<>>, nonce |-> <<>>],
     bufferSeconds |-> <<>>, expiresAt |-> 0, bufferMs |-> <<>>,
     bytes |-> <<>>, base64 |-> <<>>]

NoLocals ==
    [accounts |-> <<>>, signerAddress |-> "", name |-> <<>>, version |-> <<>>,
     deadline |-> 0, expiration |-> 0]

NoTypedData == [primaryType |-> "none"]
Pending == [status |-> "pending", error |-> "", value |-> <<>>]

Init ==
    /\ provider = "arbitrary"
    /\ active = {1}
    /\ pc = [p \in Procs |-> "idle"]
    /\ op = [p \in Procs |-> "none"]
    /\ args = [p \in Procs |-> NoArgs]
    /\ loc = [p \in Procs |-> NoLocals]
    /\ log = [p \in Procs |-> <<>>]
    /\ sent = [p \in Procs |-> NoTypedData]
    /\ resp = [p \in Procs |-> <<>>]
    /\ ret = [p \in Procs |-> Pending]
    /\ chainNonce \in 0..MaxNonce
    /\ seen = [p \in Procs |-> NaN]
    /\ settled = {}
    /\ win = NoWallets


(***************************************************************************)
(* How a step of a flow ends.                                              *)
(***************************************************************************)

\* throw: the call rejects with e.
Throw(p, e) ==
    /\ pc' = [pc EXCEPT ![p] = "done"]
    /\ ret' = [ret EXCEPT ![p] = [status |-> "error", error |-> e, value |-> <<>>]]
    /\ UNCHANGED <<loc, log, sent>>

\* return v
Return(p, v) ==
    /\ pc' = [pc EXCEPT ![p] = "done"]
    /\ ret' = [ret EXCEPT ![p] = [status |-> "ok", error |-> "", value |-> v]]
    /\ UNCHANGED <<loc, log, sent>>

\* await provider.request({method, params: data}), the locals being l.
Await(p, method, data, at, l) ==
    /\ pc' = [pc EXCEPT ![p] = at]
    /\ log' = [log EXCEPT ![p] = Append(@, [method |-> method, data |-> data])]
    /\ loc' = [loc EXCEPT ![p] = l]
    /\ UNCHANGED <<ret, sent>>

\* await provider.request({method: 'eth_signTypedData_v4',
\*                         params: [signer, JSON.stringify(typedData)]})
AwaitSign(p, typedData, at, l) ==
    /\ pc' = [pc EXCEPT ![p] = at]
    /\ log' = [log EXCEPT ![p] =
                  Append(@, [method |-> "eth_signTypedData_v4", data |-> ""])]
    /\ sent' = [sent EXCEPT ![p] = typedData]
    /\ loc' = [loc EXCEPT ![p] = l]
    /\ UNCHANGED ret

\* The error a rejected request carries; what names the request.
RejectionOf(request) == "rejected: " \o request

(***************************************************************************)
(* signERC20Permit                                                         *)
(***************************************************************************)

\* A deadline that adds the offset to the clock's milliseconds.
permitDeadlineMs(now, deadlineMinutes) ==
    now + Default(deadlineMinutes, 60) * 60

\* Lines 52-54.
permitDeadline(now, deadlineMinutes) ==
    (now \div 1000) + Default(deadlineMinutes, 60) * 60

\* Line 73.
chooseSigner(expectedSignerAddress, accounts) ==
    IF Falsy(expectedSignerAddress) THEN accounts[1] ELSE expectedSignerAddress

\* A Permit whose domain carries the chain id resolved with the domain.
permitTypedDataResolvedChain(a, signerAddress, domainInfo, deadline) ==
    [primaryType |-> "Permit",
     signer      |-> signerAddress,
     domain      |-> [name              |-> domainInfo.name,
                      version           |-> domainInfo.version,
                      chainId           |-> domainInfo.chainId,
                      verifyingContract |-> domainInfo.verifyingContract],
     message     |-> [owner    |-> signerAddress,
                      spender  |-> a.spenderAddress,
                      value    |-> a.value,
                      nonce    |-> a.nonce,
                      deadline |-> deadline]]

\* A Permit whose domain carries the default version whatever was resolved.
permitTypedDataHardcoded(a, signerAddress, domainInfo, deadline) ==
    [primaryType |-> "Permit",
     signer      |-> signerAddress,
     domain      |-> [name              |-> domainInfo.name,
                      version           |-> DEFAULT_PERMIT_VERSION,
                      chainId           |-> a.chainId,
                      verifyingContract |-> a.tokenAddress],
     message     |-> [owner    |-> signerAddress,
                      spender  |-> a.spenderAddress,
                      value    |-> a.value,
                      nonce    |-> a.nonce,
                      deadline |-> deadline]]

\* Lines 77-107: the typed data of a Permit.
permitTypedData(a, signerAddress, domainInfo, deadline) ==
    [primaryType |-> "Permit",
     signer      |-> signerAddress,
     domain      |-> [name              |-> domainInfo.name,
                      version           |-> domainInfo.version,
                      chainId           |-> a.chainId,
                      verifyingContract |-> a.tokenAddress],
     message     |-> [owner    |-> signerAddress,
                      spender  |-> a.spenderAddress,
                      value    |-> a.value,
                      nonce    |-> a.nonce,
                      deadline |-> deadline]]

\* Lines 37-59: the call, up to its first await.
StartSignERC20Permit(p, a) ==
    /\ op' = [op EXCEPT ![p] = "signERC20Permit"]
    /\ args' = [args EXCEPT ![p] = a]
    /\ ret' = [ret EXCEPT ![p] = Pending]
    /\ pc' = [pc EXCEPT ![p] = "eth_accounts"]
    /\ log' = [log EXCEPT ![p] = Append(@, [method |-> "eth_accounts", data |-> ""])]
    /\ loc' = [loc EXCEPT ![p] =
                  [NoLocals EXCEPT !.deadline =
                                       permitDeadline(a.now, a.deadlineMinutes)]]
    /\ UNCHANGED <<provider, active, sent, resp, chainNonce, seen, settled, win>>

CallSignERC20Permit(p) ==
    /\ p \in active
    /\ pc[p] = "idle"
    /\ \E signer \in SignerOpts, cid \in ChainIds, tn \in TokenNames, t \in TimeOpts :
          StartSignERC20Permit(p,
              [NoArgs EXCEPT !.tokenAddress = T1, !.chainId = cid, !.tokenName = tn,
                             !.spenderAddress = SPENDER, !.value = "1000000",
                             !.nonce = chainNonce, !.deadlineMinutes = t.minutes,
                             !.signerAddress = signer, !.now = t.now])

\* An access request whatever eth_accounts answered.
noAccountsAlways(accounts) == TRUE

\* Lines 62 and 68: accounts.length === 0
noAccounts(accounts) == Len(accounts) = 0

\* A signERC20Permit that goes on to the domain with no account at all.
AfterAccountsUnchecked(p, accounts) ==
    Await(p, "eth_call", EIP712_DOMAIN_SELECTOR, "eip712Domain",
          [loc[p] EXCEPT !.accounts = accounts,
                         !.signerAddress =
                             IF Len(accounts) = 0 THEN args[p].signerAddress
                             ELSE chooseSigner(args[p].signerAddress, accounts)])

\* Lines 68-76: with the accounts known, up to the await in getEip712Domain.
AfterAccounts(p, accounts) ==
    IF Len(accounts) = 0
    THEN Throw(p, "No connected accounts")
    ELSE Await(p, "eth_call", EIP712_DOMAIN_SELECTOR, "eip712Domain",
               [loc[p] EXCEPT !.accounts = accounts,
                              !.signerAddress =
                                  chooseSigner(args[p].signerAddress, accounts)])

\* Lines 57-66: eth_accounts answers.
AccountsReply(p) ==
    /\ pc[p] = "eth_accounts"
    /\ \E a \in AccountsAnswers :
          /\ resp' = [resp EXCEPT ![p] = Append(@, a)]
          /\ IF ~a.ok THEN Throw(p, RejectionOf("eth_accounts"))
             ELSE IF noAccounts(a.data)
             THEN Await(p, "eth_requestAccounts", "", "eth_requestAccounts", loc[p])
             ELSE AfterAccounts(p, a.data)
    /\ UNCHANGED <<provider, active, op, args, chainNonce, seen, settled, win>>

\* Lines 63-70: eth_requestAccounts answers.
RequestAccountsReply(p) ==
    /\ pc[p] = "eth_requestAccounts"
    /\ \E a \in RequestAccountsAnswers :
          /\ resp' = [resp EXCEPT ![p] = Append(@, a)]
          /\ IF ~a.ok THEN Throw(p, RejectionOf("eth_requestAccounts"))
             ELSE AfterAccounts(p, a.data)
    /\ UNCHANGED <<provider, active, op, args, chainNonce, seen, settled, win>>

\* Lines 109-128: eth_signTypedData_v4 answers.
signResult(p, signature) ==
    LET vrs == parseSignature(signature)
    IN  [permitSignature |-> [value    |-> args[p].value,
                              deadline |-> loc[p].deadline,
                              v        |-> vrs.v,
                              r        |-> vrs.r,
                              s        |-> vrs.s],
         signerAddress   |-> loc[p].signerAddress]

SignReply(p) ==
    /\ pc[p] = "eth_signTypedData_v4"
    /\ op[p] = "signERC20Permit"
    /\ \E a \in SignAnswers :
          /\ resp' = [resp EXCEPT ![p] = Append(@, a)]
          /\ IF ~a.ok THEN Throw(p, RejectionOf("eth_signTypedData_v4"))
             ELSE Return(p, signResult(p, a.data))
    /\ UNCHANGED <<provider, active, op, args, chainNonce, seen, settled, win>>

(***************************************************************************)
(* getEip712Domain, getTokenName, getTokenVersion                          *)
(***************************************************************************)

CallGetEip712Domain(p) ==
    /\ p \in active
    /\ pc[p] = "idle"
    /\ op' = [op EXCEPT ![p] = "getEip712Domain"]
    /\ args' = [args EXCEPT ![p] = [NoArgs EXCEPT !.tokenAddress = T1]]
    /\ Await(p, "eth_call", EIP712_DOMAIN_SELECTOR, "eip712Domain", NoLocals)
    /\ UNCHANGED <<provider, active, resp, chainNonce, seen, settled, win>>

CallGetTokenName(p) ==
    /\ p \in active
    /\ pc[p] = "idle"
    /\ op' = [op EXCEPT ![p] = "getTokenName"]
    /\ args' = [args EXCEPT ![p] = [NoArgs EXCEPT !.tokenAddress = T1]]
    /\ Await(p, "eth_call", NAME_SELECTOR, "name", NoLocals)
    /\ UNCHANGED <<provider, active, resp, chainNonce, seen, settled, win>>

\* getEip712Domain returned domainInfo: to its caller.
DomainResolved(p, domainInfo) ==
    IF op[p] = "getEip712Domain"
    THEN Return(p, domainInfo)
    ELSE AwaitSign(p, permitTypedData(args[p], loc[p].signerAddress, domainInfo,
                                      loc[p].deadline),
                   "eth_signTypedData_v4", loc[p])

\* A getEip712Domain that runs the fallback whatever eip712Domain() answered.
eip712DomainFailsAlways(a) == TRUE

\* The try block of getEip712Domain fails: the request rejects or the decoding
\* throws.
eip712DomainFails(a) == ~a.ok \/ decodeEip712DomainThrows(a.data)

\* Lines 238-253: eip712Domain() answers.
Eip712DomainReply(p) ==
    /\ pc[p] = "eip712Domain"
    /\ \E a \in Eip712DomainAnswers :
          /\ resp' = [resp EXCEPT ![p] = Append(@, a)]
          /\ IF eip712DomainFails(a)
             THEN Await(p, "eth_call", NAME_SELECTOR, "name", loc[p])
             ELSE DomainResolved(p, decodeEip712Domain(a.data, args[p].tokenAddress))
    /\ UNCHANGED <<provider, active, op, args, chainNonce, seen, settled, win>>

\* A getTokenName that answers a rejected name() with an empty name.
getTokenNameDefaults(a) ==
    IF a.ok THEN [threw |-> FALSE, error |-> "", value |-> decodeTokenName(a.data)]
    ELSE [threw |-> FALSE, error |-> "", value |-> <<>>]

\* getTokenName: what it returns or throws for an answer.
getTokenName(a) ==
    IF a.ok THEN [threw |-> FALSE, error |-> "", value |-> decodeTokenName(a.data)]
    ELSE [threw |-> TRUE, error |-> RejectionOf("name()"), value |-> <<>>]

\* Lines 72-95 and 253-254: name() answers.
NameReply(p) ==
    /\ pc[p] = "name"
    /\ \E a \in NameAnswers :
          /\ resp' = [resp EXCEPT ![p] = Append(@, a)]
          /\ LET name == getTokenName(a)
             IN  IF name.threw THEN Throw(p, name.error)
                 ELSE IF op[p] = "getTokenName" THEN Return(p, name.value)
                 ELSE Await(p, "eth_call", VERSION_SELECTOR, "version",
                            [loc[p] EXCEPT !.name = name.value])
    /\ UNCHANGED <<provider, active, op, args, chainNonce, seen, settled, win>>

\* A getTokenVersion without its catch: a rejected version() is re-raised.
getTokenVersionRethrows(a) ==
    IF a.ok THEN [threw |-> FALSE, error |-> "", value |-> decodeTokenVersion(a.data)]
    ELSE [threw |-> TRUE, error |-> RejectionOf("version()"), value |-> <<>>]

\* getTokenVersion: what it returns or throws for an answer.
getTokenVersion(a) ==
    IF a.ok THEN [threw |-> FALSE, error |-> "", value |-> decodeTokenVersion(a.data)]
    ELSE [threw |-> FALSE, error |-> "", value |-> DEFAULT_PERMIT_VERSION]

\* Lines 180-201 and 254-257: version() answers.
VersionReply(p) ==
    /\ pc[p] = "version"
    /\ \E a \in VersionAnswers :
          /\ resp' = [resp EXCEPT ![p] = Append(@, a)]
          /\ LET version == getTokenVersion(a)
             IN  IF version.threw THEN Throw(p, version.error)
                 ELSE Await(p, "eth_chainId", "", "eth_chainId",
                            [loc[p] EXCEPT !.version = version.value])
    /\ UNCHANGED <<provider, active, op, args, chainNonce, seen, settled, win>>

\* Lines 255-264: eth_chainId answers.
ChainIdReply(p) ==
    /\ pc[p] = "eth_chainId"
    /\ \E a \in ChainIdAnswers :
          /\ resp' = [resp EXCEPT ![p] = Append(@, a)]
          /\ IF ~a.ok THEN Throw(p, RejectionOf("eth_chainId"))
             ELSE DomainResolved(p, [name              |-> loc[p].name,
                                     version           |-> loc[p].version,
                                     chainId           |-> ParseInt16(a.data),
                                     verifyingContract |-> args[p].tokenAddress])
    /\ UNCHANGED <<provider, active, op, args, chainNonce, seen, settled, win>>


(***************************************************************************)
(* signPermit2 (src/evm-permit2/sign-permit.ts)                            *)
(***************************************************************************)

\* A check that lets the empty string through.
signerMissingOnlyUndefined(signerAddress) == signerAddress = Undefined

\* Lines 49-51.
signerMissing(signerAddress) == Falsy(signerAddress)

\* Lines 54-68.
permitSingleOf(a) ==
    LET now == a.now \div 1000
    IN  [details     |-> [token      |-> a.tokenAddress,
                          amount     |-> a.allowanceAmount,
                          expiration |-> now + Default(a.expirationDays, 30) * 24 * 60 * 60,
                          nonce      |-> a.nonce],
         spender     |-> a.spenderAddress,
         sigDeadline |-> now + Default(a.sigDeadlineMinutes, 5) * 60]

\* Lines 71-102: the typed data of a PermitSingle.
permit2TypedData(a, permitSingle) ==
    [primaryType |-> "PermitSingle",
     signer      |-> a.signerAddress,
     domain      |-> [name              |-> PERMIT2_DOMAIN_NAME,
                      chainId           |-> a.chainId,
                      verifyingContract |-> a.permit2Address],
     message     |-> [details     |-> permitSingle.details,
                      spender     |-> permitSingle.spender,
                      sigDeadline |-> permitSingle.sigDeadline]]

\* Lines 33-107: the call, up to its await.
CallSignPermit2(p) ==
    /\ p \in active
    /\ pc[p] = "idle"
    /\ \E signer \in SignerOpts, cid \in ChainIds, t \in TimeOpts :
          LET a == [NoArgs EXCEPT !.tokenAddress = T1, !.chainId = cid,
                                  !.permit2Address = PERMIT2,
                                  !.spenderAddress = SPENDER,
                                  !.allowanceAmount = "0xffff", !.nonce = chainNonce,
                                  !.expirationDays = t.days,
                                  !.sigDeadlineMinutes = t.minutes,
                                  !.signerAddress = signer, !.now = t.now]
          IN  /\ op' = [op EXCEPT ![p] = "signPermit2"]
              /\ args' = [args EXCEPT ![p] = a]
              /\ IF signerMissing(a.signerAddress)
                 THEN Throw(p, "signerAddress is required")
                 ELSE AwaitSign(p, permit2TypedData(a, permitSingleOf(a)),
                                "eth_signTypedData_v4", NoLocals)
    /\ UNCHANGED <<provider, active, resp, chainNonce, seen, settled, win>>

\* Lines 104-113: eth_signTypedData_v4 answers.
Permit2SignReply(p) ==
    /\ pc[p] = "eth_signTypedData_v4"
    /\ op[p] = "signPermit2"
    /\ \E a \in SignAnswers :
          /\ resp' = [resp EXCEPT ![p] = Append(@, a)]
          /\ IF ~a.ok THEN Throw(p, RejectionOf("eth_signTypedData_v4"))
             ELSE Return(p, [permitSingle  |-> permitSingleOf(args[p]),
                             signature     |-> a.data,
                             signerAddress |-> args[p].signerAddress])
    /\ UNCHANGED <<provider, active, op, args, chainNonce, seen, settled, win>>

(***************************************************************************)
(* checkPermit2Allowance (src/evm-permit/sign-permit.ts, lines 200-271)    *)
(***************************************************************************)

CallCheckPermit2Allowance(p) ==
    /\ p \in active
    /\ pc[p] = "idle"
    /\ op' = [op EXCEPT ![p] = "checkPermit2Allowance"]
    /\ args' = [args EXCEPT ![p] =
                   [NoArgs EXCEPT !.tokenAddress = T1, !.permit2Address = PERMIT2,
                                  !.ownerAddress = A1, !.spenderAddress = SPENDER]]
    /\ Await(p, "eth_call", PERMIT2_ALLOWANCE_SELECTOR, "allowance", NoLocals)
    /\ UNCHANGED <<provider, active, resp, chainNonce, seen, settled, win>>

\* checkPermit2Allowance: what it returns or throws for an answer.
checkPermit2Allowance(a) ==
    IF ~a.ok
    THEN [threw |-> TRUE, error |-> RejectionOf("allowance()"), value |-> <<>>]
    ELSE IF decodeAllowanceResultThrows(a.data)
    THEN [threw |-> TRUE, error |-> "SyntaxError", value |-> <<>>]
    ELSE [threw |-> FALSE, error |-> "", value |-> decodeAllowanceResult(a.data)]

AllowanceReply(p) ==
    /\ pc[p] = "allowance"
    /\ \E a \in AllowanceAnswers :
          /\ resp' = [resp EXCEPT ![p] = Append(@, a)]
          /\ LET out == checkPermit2Allowance(a)
             IN  IF out.threw THEN Throw(p, out.error) ELSE Return(p, out.value)
    /\ UNCHANGED <<provider, active, op, args, chainNonce, seen, settled, win>>

(***************************************************************************)
(* getERC20Nonce (src/evm-permit/allowance.ts, lines 31-52)                *)
(***************************************************************************)

CallGetERC20Nonce(p) ==
    /\ p \in active
    /\ pc[p] = "idle"
    /\ op' = [op EXCEPT ![p] = "getERC20Nonce"]
    /\ args' = [args EXCEPT ![p] =
                   [NoArgs EXCEPT !.tokenAddress = T1, !.ownerAddress = A1]]
    /\ Await(p, "eth_call", NONCES_SELECTOR, "nonces", NoLocals)
    /\ UNCHANGED <<provider, active, resp, chainNonce, seen, settled, win>>

\* A getERC20Nonce that returns the nonce after the current one.
decodeNonceNext(result) == Plus(ParseInt16(result), 1)

\* Line 51.
decodeNonce(result) == ParseInt16(result)

NonceReply(p) ==
    /\ pc[p] = "nonces"
    /\ \E a \in NonceAnswers :
          /\ resp' = [resp EXCEPT ![p] = Append(@, a)]
          /\ seen' = [seen EXCEPT ![p] = IF a.ok THEN chainNonce ELSE @]
          /\ IF ~a.ok THEN Throw(p, RejectionOf("nonces()"))
             ELSE Return(p, decodeNonce(a.data))
    /\ UNCHANGED <<provider, active, op, args, chainNonce, settled, win>>

(***************************************************************************)
(* getERC20Allowance, checkERC20Allowance (src/evm-permit/allowance.ts),   *)
(* isAllowanceSufficient (src/evm-permit/sign-permit.ts)                   *)
(***************************************************************************)
ALLOWANCE_SELECTOR == "0xdd62ed3e"

\* a < b of two bigints given as digits of one base without leading zeros.
RECURSIVE LexLess(_, _)
LexLess(a, b) ==
    /\ a # <<>>
    /\ \/ Head(a) < Head(b)
       \/ Head(a) = Head(b) /\ LexLess(Tail(a), Tail(b))
BigLess(a, b) == Len(a) < Len(b) \/ (Len(a) = Len(b) /\ LexLess(a, b))

\* The hex digits ds divided by ten: quotient digits and remainder.
RECURSIVE LongDiv10(_, _, _)
LongDiv10(ds, carry, acc) ==
    IF ds = <<>> THEN [q |-> acc, r |-> carry]
    ELSE LET cur == carry * 16 + Head(ds)
         IN  LongDiv10(Tail(ds), cur % 10, Append(acc, cur \div 10))

\* bigint.toString(): the decimal digits of a bigint given as hex digits.
RECURSIVE DecimalDigits(_)
DecimalDigits(ds) ==
    LET n == StripZeros(ds)
    IN  IF n = <<>> THEN <<>>
        ELSE LET d == LongDiv10(n, 0, <<>>) IN DecimalDigits(d.q) \o <<d.r>>
BigIntToString(ds) == IF StripZeros(ds) = <<>> THEN <<0>> ELSE DecimalDigits(ds)

\* Lines 114-137: getERC20Allowance, what it returns or throws for an answer:
\* BigInt(result).toString().
getERC20Allowance(a) ==
    IF ~a.ok THEN [threw |-> TRUE, error |-> RejectionOf("allowance()"), value |-> <<>>]
    ELSE IF BigIntThrows(a.data)
    THEN [threw |-> TRUE, error |-> "SyntaxError", value |-> <<>>]
    ELSE [threw |-> FALSE, error |-> "", value |-> BigIntToString(BigIntOf(a.data))]

\* Lines 161-166: BigInt(allowance) >= BigInt(requiredAmount) of two decimal
\* strings.
checkERC20AllowanceInfo(allowance, requiredAmount) ==
    [allowance    |-> allowance,
     isSufficient |-> ~BigLess(StripZeros(allowance), StripZeros(requiredAmount))]

CallCheckERC20Allowance(p) ==
    /\ p \in active
    /\ pc[p] = "idle"
    /\ \E requiredAmount \in RequiredAmounts :
          /\ op' = [op EXCEPT ![p] = "checkERC20Allowance"]
          /\ args' = [args EXCEPT ![p] =
                         [NoArgs EXCEPT !.tokenAddress = T1, !.ownerAddress = A1,
                                        !.spenderAddress = SPENDER,
                                        !.requiredAmount = requiredAmount]]
          /\ Await(p, "eth_call", ALLOWANCE_SELECTOR, "erc20Allowance", NoLocals)
    /\ UNCHANGED <<provider, active, resp, chainNonce, seen, settled, win>>

\* Lines 124-136 and 161-166: allowance(owner, spender) answers.
ERC20AllowanceReply(p) ==
    /\ pc[p] = "erc20Allowance"
    /\ \E a \in ERC20AllowanceAnswers :
          /\ resp' = [resp EXCEPT ![p] = Append(@, a)]
          /\ LET allowance == getERC20Allowance(a)
             IN  IF allowance.threw THEN Throw(p, allowance.error)
                 ELSE Return(p, checkERC20AllowanceInfo(allowance.value,
                                                        args[p].requiredAmount))
    /\ UNCHANGED <<provider, active, op, args, chainNonce, seen, settled, win>>

\* A sufficiency check that forgets the expiration.
isAllowanceSufficientAmountOnly(allowance, requiredAmount, bufferSeconds, nowMs) ==
    ~BigLess(allowance.amount, requiredAmount)

\* Lines 281-299 of sign-permit.ts, the clock reading nowMs.
isAllowanceSufficient(allowance, requiredAmount, bufferSeconds, nowMs) ==
    LET now == nowMs \div 1000
    IN  IF BigLess(allowance.amount, requiredAmount) THEN FALSE
        ELSE IF HexVal(allowance.expiration) < now + Default(bufferSeconds, 1800)
        THEN FALSE
        ELSE TRUE

CallIsAllowanceSufficient(p) ==
    /\ p \in active
    /\ pc[p] = "idle"
    /\ \E in \in SufficiencyInputs :
          /\ op' = [op EXCEPT ![p] = "isAllowanceSufficient"]
          /\ args' = [args EXCEPT ![p] =
                         [NoArgs EXCEPT !.allowance = in.allowance,
                                        !.requiredAmount = in.requiredAmount,
                                        !.bufferSeconds = in.bufferSeconds,
                                        !.now = in.now]]
          /\ Return(p, isAllowanceSufficient(in.allowance, in.requiredAmount,
                                             in.bufferSeconds, in.now))
    /\ UNCHANGED <<provider, active, resp, chainNonce, seen, settled, win>>

(***************************************************************************)
(* SVM delegate signing (src/unnamed/part_002)                             *)
(***************************************************************************)

\* The base64 alphabet; a base64 text is a sequence of its characters.
B64 ==
    <<"A", "B", "C", "D", "E", "F", "G", "H", "I", "J", "K", "L", "M", "N", "O", "P",
      "Q", "R", "S", "T", "U", "V", "W", "X", "Y", "Z", "a", "b", "c", "d", "e", "f",
      "g", "h", "i", "j", "k", "l", "m", "n", "o", "p", "q", "r", "s", "t", "u", "v",
      "w", "x", "y", "z", "0", "1", "2", "3", "4", "5", "6", "7", "8", "9", "+", "/">>

\* btoa of a binary string, given as the char codes (0..255) of its characters:
\* four characters for every three bytes, the last group padded with =.
RECURSIVE btoa(_)
btoa(bs) ==
    IF bs = <<>> THEN <<>>
    ELSE IF Len(bs) = 1
    THEN <<B64[(bs[1] \div 4) + 1], B64[(bs[1] % 4) * 16 + 1], "=", "=">>
    ELSE IF Len(bs) = 2
    THEN <<B64[(bs[1] \div 4) + 1], B64[(bs[1] % 4) * 16 + (bs[2] \div 16) + 1],
           B64[(bs[2] % 16) * 4 + 1], "=">>
    ELSE <<B64[(bs[1] \div 4) + 1], B64[(bs[1] % 4) * 16 + (bs[2] \div 16) + 1],
           B64[(bs[2] % 16) * 4 + (bs[3] \div 64) + 1], B64[(bs[3] % 64) + 1]>>
         \o btoa(SubSeq(bs, 4, Len(bs)))

\* Lines 237-243: String.fromCharCode of every byte, then btoa.
uint8ArrayToBase64(bytes) == btoa([i \in 1..Len(bytes) |-> bytes[i]])

\* The byte arrays of the model: every array of at most MaxBytes bytes among
\* 0x00, 0xff, 0x4d and 0x83.
ByteArrays ==
    UNION {[1..n -> {0, 255, 77, 131}] : n \in 0..MaxBytes}

\* The value of a character of the base64 alphabet, 64 for any other.
B64Value(c) ==
    IF \E i \in 1..64 : B64[i] = c
    THEN (CHOOSE i \in 1..64 : B64[i] = c) - 1
    ELSE 64

\* atob takes the padding off a text whose length is a multiple of four: one
\* or two = at its end.
Unpadded(t) ==
    IF Len(t) % 4 # 0 \/ Len(t) = 0 THEN t
    ELSE IF t[Len(t)] # "=" THEN t
    ELSE IF t[Len(t) - 1] # "=" THEN SubSeq(t, 1, Len(t) - 1)
    ELSE SubSeq(t, 1, Len(t) - 2)

\* atob throws InvalidCharacterError for a text that, without its padding, has
\* a length of 1 modulo 4 or a character outside the alphabet.
atobThrows(t) ==
    LET u == Unpadded(t)
    IN  \/ Len(u) % 4 = 1
        \/ \E i \in 1..Len(u) : B64Value(u[i]) = 64

\* The bytes of an unpadded text: three for every four characters, one for
\* two left over, two for three left over, the bits left being dropped.
RECURSIVE decode6(_)
decode6(u) ==
    IF Len(u) < 2 THEN <<>>
    ELSE LET a == B64Value(u[1])
             b == B64Value(u[2])
         IN  IF Len(u) = 2 THEN <<a * 4 + (b \div 16)>>
             ELSE LET c == B64Value(u[3])
                  IN  IF Len(u) = 3
                      THEN <<a * 4 + (b \div 16), (b % 16) * 16 + (c \div 4)>>
                      ELSE <<a * 4 + (b \div 16), (b % 16) * 16 + (c \div 4),
                             (c % 4) * 64 + B64Value(u[4])>>
                           \o decode6(SubSeq(u, 5, Len(u)))

\* An atob that reads the padding as the character A and keeps its bytes.
atobKeepsPadding(t) ==
    decode6([i \in 1..Len(t) |-> IF t[i] = "=" THEN "A" ELSE t[i]])

\* atob of a text it does not throw for: the char codes of the binary string.
atob(t) == decode6(Unpadded(t))

\* Lines 225-232: atob, then charCodeAt of every character.
base64ToUint8Array(base64) ==
    LET binary == atob(base64)
    IN  [i \in 1..Len(binary) |-> binary[i]]

\* The texts handed to base64ToUint8Array: what uint8ArrayToBase64 gives for
\* the byte arrays, a text without its padding, and texts atob rejects.
Base64Texts ==
    {uint8ArrayToBase64(b) : b \in ByteArrays}
        \cup {<<"T", "Q">>, <<"T">>, <<"T", "Q", "=">>, <<"T", "*", "=", "=">>}

CallUint8ArrayToBase64(p) ==
    /\ p \in active
    /\ pc[p] = "idle"
    /\ \E bytes \in ByteArrays :
          /\ op' = [op EXCEPT ![p] = "uint8ArrayToBase64"]
          /\ args' = [args EXCEPT ![p] = [NoArgs EXCEPT !.bytes = bytes]]
          /\ Return(p, uint8ArrayToBase64(bytes))
    /\ UNCHANGED <<provider, active, resp, chainNonce, seen, settled, win>>

CallBase64ToUint8Array(p) ==
    /\ p \in active
    /\ pc[p] = "idle"
    /\ \E base64 \in Base64Texts :
          /\ op' = [op EXCEPT ![p] = "base64ToUint8Array"]
          /\ args' = [args EXCEPT ![p] = [NoArgs EXCEPT !.base64 = base64]]
          /\ IF atobThrows(base64) THEN Throw(p, "InvalidCharacterError")
             ELSE Return(p, base64ToUint8Array(base64))
    /\ UNCHANGED <<provider, active, resp, chainNonce, seen, settled, win>>

\* A check that looks at isConnected only.
notConnectedIgnoresKey(solProvider) == ~solProvider.isConnected

\* Line 94: !provider.isConnected || !provider.publicKey
notConnected(solProvider) ==
    ~solProvider.isConnected \/ solProvider.publicKey = Null

\* Lines 89-101: the call, up to its await.
CallSignDelegateTxWithTransaction(p) ==
    /\ p \in active
    /\ pc[p] = "idle"
    /\ \E solProvider \in SolProviderOpts, transaction \in Transactions :
          /\ op' = [op EXCEPT ![p] = "signDelegateTxWithTransaction"]
          /\ args' = [args EXCEPT ![p] = [NoArgs EXCEPT !.solProvider = solProvider,
                                                        !.transaction = transaction]]
          /\ IF notConnected(solProvider)
             THEN Throw(p, "Wallet not connected")
             ELSE Await(p, "signTransaction", "", "signTransaction",
                        [NoLocals EXCEPT !.signerAddress = solProvider.publicKey])
    /\ UNCHANGED <<provider, active, resp, chainNonce, seen, settled, win>>

\* Lines 101-110: signTransaction answers the signed transaction, here the
\* bytes its serialize() gives.
SignTransactionReply(p) ==
    /\ pc[p] = "signTransaction"
    /\ \E a \in SignTransactionAnswers :
          /\ resp' = [resp EXCEPT ![p] = Append(@, a)]
          /\ IF ~a.ok THEN Throw(p, RejectionOf("signTransaction"))
             ELSE Return(p, [signedTx      |-> uint8ArrayToBase64(a.data),
                             signerAddress |-> loc[p].signerAddress])
    /\ UNCHANGED <<provider, active, op, args, chainNonce, seen, settled, win>>

\* An inspection that takes any connected wallet, whatever its address.
inspectAnyAddress(wallet, expectedAddress) ==
    /\ wallet.present
    /\ ~wallet.throws
    /\ wallet.isConnected

\* Lines 148-159: the wallet is there, and reading it does not throw, and it
\* is connected with the expected address.
inspect(wallet, expectedAddress) ==
    /\ wallet.present
    /\ ~wallet.throws
    /\ wallet.isConnected
    /\ wallet.publicKey = expectedAddress

\* Lines 147-162: the scan from the i-th wallet on; the provider is returned
\* as the name of its global, null as Null.
RECURSIVE scanProviders(_, _, _)
scanProviders(w, expectedAddress, i) ==
    IF i > Len(SUPPORTED_WALLETS) THEN Null
    ELSE IF inspect(w[i], expectedAddress) THEN SUPPORTED_WALLETS[i]
    ELSE scanProviders(w, expectedAddress, i + 1)

findConnectedProvider(w, expectedAddress) == scanProviders(w, expectedAddress, 1)

CallFindConnectedProvider(p) ==
    /\ p \in active
    /\ pc[p] = "idle"
    /\ \E w \in WalletConfigs :
          /\ win' = w
          /\ op' = [op EXCEPT ![p] = "findConnectedProvider"]
          /\ args' = [args EXCEPT ![p] = [NoArgs EXCEPT !.expectedAddress = K1,
                                                        !.window = w]]
          /\ Return(p, findConnectedProvider(w, K1))
    /\ UNCHANGED <<provider, active, resp, chainNonce, seen, settled>>

\* Lines 212-215.
NotFound == "Could not find wallet with address"

\* Lines 200-215: from the solflare attempt on.
TrySolflare(p, w) ==
    IF w[2].present
    THEN Await(p, "connect", "solflare", "connectSolflare", loc[p])
    ELSE Throw(p, NotFound)

\* A connect helper that leaves phantom out.
TryPhantomSkipped(p, w) == TrySolflare(p, w)

\* Lines 189-198: from the phantom attempt on.
TryPhantom(p, w) ==
    IF w[1].present
    THEN Await(p, "connect", "phantom", "connectPhantom", loc[p])
    ELSE TrySolflare(p, w)

\* Lines 176-191: the call, up to its first await.
CallConnectSolanaWallet(p) ==
    /\ p \in active
    /\ pc[p] = "idle"
    /\ \E w \in WalletConfigs :
          /\ win' = w
          /\ op' = [op EXCEPT ![p] = "connectSolanaWallet"]
          /\ args' = [args EXCEPT ![p] = [NoArgs EXCEPT !.expectedAddress = K1,
                                                        !.window = w]]
          /\ LET connected == findConnectedProvider(w, K1)
             IN  IF connected # Null THEN Return(p, connected) ELSE TryPhantom(p, w)
    /\ UNCHANGED <<provider, active, resp, chainNonce, seen, settled>>

\* The wallet after its connect() resolved with the answer a: connected, with
\* the publicKey answered; a wallet that throws when read keeps doing so.
Connected(wallet, a) ==
    [wallet EXCEPT !.isConnected = TRUE,
                   !.publicKey = IF a.data = <<>> THEN Null ELSE a.data[1]]

\* Lines 191-197: phantom's connect() answers; resp.publicKey.toString() of a
\* response without publicKey throws, which the catch skips like a rejection.
PhantomConnectReply(p) ==
    /\ pc[p] = "connectPhantom"
    /\ \E a \in ConnectAnswers :
          /\ resp' = [resp EXCEPT ![p] = Append(@, a)]
          /\ win' = IF a.ok THEN [win EXCEPT ![1] = Connected(@, a)] ELSE win
          /\ IF a.ok /\ a.data # <<>> /\ a.data[1] = args[p].expectedAddress
             THEN Return(p, SUPPORTED_WALLETS[1])
             ELSE TrySolflare(p, win)
    /\ UNCHANGED <<provider, active, op, args, chainNonce, seen, settled>>

\* Lines 203-215: solflare's connect() answers, and win.solflare.publicKey is
\* read.
SolflareConnectReply(p) ==
    /\ pc[p] = "connectSolflare"
    /\ \E a \in ConnectAnswers :
          /\ resp' = [resp EXCEPT ![p] = Append(@, a)]
          /\ win' = IF a.ok THEN [win EXCEPT ![2] = Connected(@, a)] ELSE win
          /\ IF a.ok /\ ~win[2].throws
                     /\ Connected(win[2], a).publicKey = args[p].expectedAddress
             THEN Return(p, SUPPORTED_WALLETS[2])
             ELSE Throw(p, NotFound)
    /\ UNCHANGED <<provider, active, op, args, chainNonce, seen, settled>>

\* A freshness check that accepts an expiry exactly at the buffer's end.
isBlockhashValidInclusive(expiresAt, bufferMs, now) ==
    expiresAt >= now + Default(bufferMs, 10000)

\* Lines 252-254, with Date.now() as now.
isBlockhashValid(expiresAt, bufferMs, now) ==
    expiresAt > now + Default(bufferMs, 10000)

CallIsBlockhashValid(p) ==
    /\ p \in active
    /\ pc[p] = "idle"
    /\ \E in \in BlockhashInputs :
          /\ op' = [op EXCEPT ![p] = "isBlockhashValid"]
          /\ args' = [args EXCEPT ![p] =
                         [NoArgs EXCEPT !.expiresAt = in.expiresAt,
                                        !.bufferMs = in.bufferMs,
                                        !.now = in.now]]
          /\ Return(p, isBlockhashValid(in.expiresAt, in.bufferMs, in.now))
    /\ UNCHANGED <<provider, active, resp, chainNonce, seen, settled, win>>

(***************************************************************************)
(* The single-flow specification: one call of one exported function, the   *)
(* provider answering anything.                                            *)
(***************************************************************************)
Step(p) ==
    \/ CallSignERC20Permit(p)
    \/ AccountsReply(p)
    \/ RequestAccountsReply(p)
    \/ SignReply(p)
    \/ CallGetEip712Domain(p)
    \/ CallGetTokenName(p)
    \/ Eip712DomainReply(p)
    \/ NameReply(p)
    \/ VersionReply(p)
    \/ ChainIdReply(p)
    \/ CallSignPermit2(p)
    \/ Permit2SignReply(p)
    \/ CallCheckPermit2Allowance(p)
    \/ AllowanceReply(p)
    \/ CallGetERC20Nonce(p)
    \/ NonceReply(p)
    \/ CallCheckERC20Allowance(p)
    \/ ERC20AllowanceReply(p)
    \/ CallIsAllowanceSufficient(p)
    \/ CallSignDelegateTxWithTransaction(p)
    \/ SignTransactionReply(p)
    \/ CallFindConnectedProvider(p)
    \/ CallConnectSolanaWallet(p)
    \/ PhantomConnectReply(p)
    \/ SolflareConnectReply(p)
    \/ CallIsBlockhashValid(p)
    \/ CallUint8ArrayToBase64(p)
    \/ CallBase64ToUint8Array(p)

Next == \E p \in Procs : Step(p)

Spec == Init /\ [][Next]_vars

(***************************************************************************)
(* Two signing flows for the same owner and token, run concurrently by the *)
(* caller against a wallet and a node that answer well: each reads         *)
(* nonces(owner) with getERC20Nonce and then calls signERC20Permit with    *)
(* what it read; the permits are then submitted to the token contract.     *)
(***************************************************************************)
InitRace ==
    /\ provider = "wellBehaved"
    /\ active = Procs
    /\ pc = [p \in Procs |-> "idle"]
    /\ op = [p \in Procs |-> "none"]
    /\ args = [p \in Procs |-> NoArgs]
    /\ loc = [p \in Procs |-> NoLocals]
    /\ log = [p \in Procs |-> <<>>]
    /\ sent = [p \in Procs |-> NoTypedData]
    /\ resp = [p \in Procs |-> <<>>]
    /\ ret = [p \in Procs |-> Pending]
    /\ chainNonce \in 0..MaxNonce
    /\ seen = [p \in Procs |-> NaN]
    /\ settled = {}
    /\ win = NoWallets

\* The caller passes the nonce getERC20Nonce returned to signERC20Permit.
SignWithNonceRead(p) ==
    /\ pc[p] = "done"
    /\ op[p] = "getERC20Nonce"
    /\ ret[p].status = "ok"
    /\ \E t \in TimeOpts :
          StartSignERC20Permit(p,
              [NoArgs EXCEPT !.tokenAddress = T1, !.chainId = 5,
                             !.tokenName = "USD Coin", !.spenderAddress = SPENDER,
                             !.value = "1000000", !.nonce = ret[p].value,
                             !.deadlineMinutes = t.minutes, !.now = t.now])

\* A flow has returned a permit signature.
Signed(p) ==
    pc[p] = "done" /\ op[p] = "signERC20Permit" /\ ret[p].status = "ok"

\* The token contract's permit(): it accepts a signature over the owner's
\* current nonce, with v 27 or 28, and uses the nonce up.
Settle(p) ==
    /\ Signed(p)
    /\ p \notin settled
    /\ sent[p].message.nonce = chainNonce
    /\ ret[p].value.permitSignature.v \in {27, 28}
    /\ chainNonce' = chainNonce + 1
    /\ settled' = settled \cup {p}
    /\ UNCHANGED <<provider, active, pc, op, args, loc, log, sent, resp, ret, seen,
                   win>>

StepRace(p) ==
    \/ CallGetERC20Nonce(p)
    \/ NonceReply(p)
    \/ SignWithNonceRead(p)
    \/ AccountsReply(p)
    \/ Eip712DomainReply(p)
    \/ SignReply(p)
    \/ Settle(p)

NextRace == \E p \in Procs : StepRace(p)

SpecRace == InitRace /\ [][NextRace]_vars


(***************************************************************************)
(* The claims.                                                             *)
(***************************************************************************)

\* The i-th request of flow p has been answered, and how.
Answered(p, i) == i <= Len(resp[p])
RejectedAt(p, i) == Answered(p, i) /\ ~resp[p][i].ok
ResolvedAt(p, i) == Answered(p, i) /\ resp[p][i].ok

\* Flow p has issued a request of this method.
Requested(p, method) == \E i \in 1..Len(log[p]) : log[p][i].method = method

\* C1: a getEip712Domain call whose eip712Domain() eth_call rejected has fallen
\* back to name(), version() and eth_chainId, in this order; it fails only with
\* the rejection of name() or of eth_chainId, never with that of eip712Domain()
\* or version(); when name() and eth_chainId resolve it returns the decoded
\* name, the decoded version or "1" (char code 49) when version() rejected,
\* the parsed chain id and the token address.
C1_FallbackIsRecoverable ==
    \A p \in Procs :
        (op[p] = "getEip712Domain" /\ pc[p] = "done" /\ RejectedAt(p, 1)) =>
            /\ Len(log[p]) >= 2
            /\ log[p][2] = [method |-> "eth_call", data |-> NAME_SELECTOR]
            /\ ret[p].status = "error" =>
                  \/ Len(log[p]) = 2 /\ RejectedAt(p, 2)
                                     /\ ret[p].error = "rejected: name()"
                  \/ Len(log[p]) = 4 /\ RejectedAt(p, 4)
                                     /\ ret[p].error = "rejected: eth_chainId"
            /\ ResolvedAt(p, 2) =>
                  /\ Len(log[p]) = 4
                  /\ log[p][3] = [method |-> "eth_call", data |-> VERSION_SELECTOR]
                  /\ log[p][4] = [method |-> "eth_chainId", data |-> ""]
            /\ (ResolvedAt(p, 2) /\ ResolvedAt(p, 4)) =>
                  /\ ret[p].status = "ok"
                  /\ ret[p].value.name = decodeTokenName(resp[p][2].data)
                  /\ ret[p].value.version =
                        IF resp[p][3].ok THEN decodeTokenVersion(resp[p][3].data)
                        ELSE <<49>>
                  /\ resp[p][2].data = EncStringReturn(<<85, 83>>) =>
                        ret[p].value.name = <<85, 83>>
                  /\ resp[p][3] = Resolved(EncStringReturn(<<50>>)) =>
                        ret[p].value.version = <<50>>
                  /\ ret[p].value.chainId = ParseInt16(resp[p][4].data)
                  /\ resp[p][4].data = <<0, XCh, 5>> => ret[p].value.chainId = 5
                  /\ ret[p].value.verifyingContract = args[p].tokenAddress

\* C1, its case: eip712Domain() rejected, version() rejected, and the call
\* returned a domain with the version "1".
C1_Witness ==
    \E p \in Procs :
        /\ op[p] = "getEip712Domain" /\ pc[p] = "done"
        /\ RejectedAt(p, 1) /\ RejectedAt(p, 3)
        /\ ret[p].status = "ok"
        /\ ret[p].value.version = <<49>>
        /\ ret[p].value.name = <<85, 83>>

\* C2: once the name() call of the fallback of getEip712Domain (called bare
\* or by signERC20Permit) was rejected, the flow has failed with that
\* rejection, returned nothing, and the name() request is the last request
\* it issued (no version(), no eth_chainId, no signing request after it).
C2_NameFailurePropagates ==
    \A p \in Procs : \A i \in 1..Len(log[p]) :
        (op[p] # "getTokenName" /\ log[p][i].data = NAME_SELECTOR
                                /\ RejectedAt(p, i)) =>
            /\ pc[p] = "done"
            /\ ret[p].status = "error"
            /\ ret[p].error = "rejected: name()"
            /\ ret[p].value = <<>>
            /\ Len(log[p]) = i

\* C2, its case: getEip712Domain fell back and its name() call was rejected.
C2_Witness ==
    \E p \in Procs :
        /\ op[p] = "getEip712Domain" /\ pc[p] = "done"
        /\ Len(log[p]) = 2 /\ RejectedAt(p, 2)
        /\ ret[p].status = "error"


\* The last answer flow p received.
LastAnswer(p) == resp[p][Len(resp[p])]

\* signERC20Permit has received an answer to its signing request.
SignAnswered(p) ==
    /\ op[p] = "signERC20Permit" /\ pc[p] = "done"
    /\ Len(log[p]) >= 1
    /\ log[p][Len(log[p])].method = "eth_signTypedData_v4"
    /\ ResolvedAt(p, Len(log[p]))

\* 0x followed by exactly 130 hex characters.
Is65Bytes(signature) ==
    /\ Len(signature) = 132
    /\ signature[1] = 0 /\ signature[2] = XCh
    /\ \A i \in 3..132 : signature[i] \in 0..15

\* C3 (as claimed): for every 65-byte signature the signer returns, the v
\* that signERC20Permit returns is 27 or 28, whatever the trailing byte.
C3_VAlwaysLegacy ==
    \A p \in Procs :
        (SignAnswered(p) /\ Is65Bytes(LastAnswer(p).data)) =>
            /\ ret[p].status = "ok"
            /\ ret[p].value.permitSignature.v \in {27, 28}

\* C4 (as claimed): when the signer returns something other than 0x and 130
\* hex characters, signERC20Permit fails and returns no result.
C4_MalformedSignatureFails ==
    \A p \in Procs :
        (SignAnswered(p) /\ ~Is65Bytes(LastAnswer(p).data)) =>
            ret[p].status = "error"

C6_ExplicitSignerNeedsNoAccounts ==
    \A p \in Procs :
        (op[p] = "signERC20Permit" /\ ~Falsy(args[p].signerAddress)) =>
            /\ ~Requested(p, "eth_accounts")
            /\ ~Requested(p, "eth_requestAccounts")
            /\ ret[p].error # "No connected accounts"
            /\ sent[p].primaryType = "Permit" =>
                  /\ sent[p].signer = args[p].signerAddress
                  /\ sent[p].message.owner = args[p].signerAddress

\* C7: signPermit2 never requests eth_accounts or eth_requestAccounts; with
\* a missing or empty signerAddress it has failed with 'signerAddress is
\* required' having issued no request at all; otherwise its one request is
\* the signing request, for the signerAddress given.
C7_Permit2SignerRequired ==
    \A p \in Procs :
        op[p] = "signPermit2" =>
            /\ ~Requested(p, "eth_accounts")
            /\ ~Requested(p, "eth_requestAccounts")
            /\ args[p].signerAddress \in {Undefined, ""} =>
                  /\ pc[p] = "done"
                  /\ ret[p].status = "error"
                  /\ ret[p].error = "signerAddress is required"
                  /\ log[p] = <<>>
                  /\ sent[p].primaryType = "none"
            /\ args[p].signerAddress \notin {Undefined, ""} =>
                  /\ log[p] = <<[method |-> "eth_signTypedData_v4", data |-> ""]>>
                  /\ sent[p].signer = args[p].signerAddress
                  /\ ret[p].status = "ok" => ret[p].value.signerAddress = args[p].signerAddress

\* C7, its case: signPermit2 called with the empty string as signerAddress
\* has failed.
C7_Witness ==
    \E p \in Procs :
        /\ op[p] = "signPermit2" /\ args[p].signerAddress = ""
        /\ pc[p] = "done" /\ ret[p].status = "error" /\ log[p] = <<>>


\* C8: under SpecRace nothing serializes the two flows: a flow that has not
\* started can issue its nonces() call whatever the other flow is doing;
\* every signature returned is over the on-chain nonce its flow read; and of
\* two flows that read the same on-chain nonce and both returned a signature,
\* at most one has settled.
C8_SameNonceAtMostOneSettles ==
    /\ \A p \in Procs : pc[p] = "idle" => ENABLED CallGetERC20Nonce(p)
    /\ \A p \in Procs :
          Signed(p) => /\ sent[p].message.nonce = seen[p]
                       /\ args[p].nonce = seen[p]
    /\ \A p, q \in Procs :
          (p # q /\ Signed(p) /\ Signed(q) /\ seen[p] = seen[q]) =>
              ~({p, q} \subseteq settled)

\* C8, its case: both flows read the same on-chain nonce, both returned a
\* signature over it, one permit has settled and the other no longer can.
C8_Witness ==
    \E p, q \in Procs :
        /\ p # q /\ Signed(p) /\ Signed(q)
        /\ seen[p] = seen[q]
        /\ sent[p].message.nonce = sent[q].message.nonce
        /\ sent[p].message.owner = sent[q].message.owner
        /\ p \in settled /\ q \notin settled
        /\ ~ENABLED Settle(q)

\* A word of an answer: the 64 hex characters from character 64 * k on.
WordAt(hex, k) == Slice(hex, 64 * k, 64 * k + 64)

\* A word has a non-zero hex digit above its low `digits` hex digits.
AboveWidth(word, digits) == \E i \in 1..(64 - digits) : word[i] # 0

\* C9 (as claimed): decoding the three words of allowance(owner, token,
\* spender) fails when the amount has a bit above bit 159 or the expiration
\* or the nonce a bit above bit 47, and returns the exact integers otherwise.
C9_OutOfWidthRejected ==
    \A p \in Procs :
        (op[p] = "checkPermit2Allowance" /\ pc[p] = "done" /\ ResolvedAt(p, 1)
                                          /\ Len(resp[p][1].data) = 2 + 192) =>
            LET hex == SliceFrom(resp[p][1].data, 2)
            IN  IF \/ AboveWidth(WordAt(hex, 0), 40)
                   \/ AboveWidth(WordAt(hex, 1), 12)
                   \/ AboveWidth(WordAt(hex, 2), 12)
                THEN ret[p].status = "error"
                ELSE /\ ret[p].status = "ok"
                     /\ ret[p].value.amount = StripZeros(WordAt(hex, 0))
                     /\ WordAt(hex, 0) = Zeros(60) \o <<2, 7, 1, 0>> =>
                           HexVal(ret[p].value.amount) = 10000

\* The string block declared at character `at` of hex runs past its end:
\* its length word does, or the bytes the length word declares do.
DeclaredLength(hex, at) == HexVal(StripZeros(Slice(hex, at, at + 64)))
RunsPastEnd(hex, at) ==
    \/ Len(hex) < at + 64
    \/ Len(hex) < at + 64 + 2 * DeclaredLength(hex, at)

\* The character a head word of hex points to.
PointedAt(hex, k) == 2 * HexVal(StripZeros(WordAt(hex, k)))

\* C10 (as claimed): getTokenName, and getEip712Domain for the name and the
\* version of the eip712Domain() response, fail when a declared offset or
\* length runs past the end of the data, and otherwise return a string of
\* the declared length.
C10_NoSilentTruncation ==
    \A p \in Procs :
        /\ (op[p] = "getTokenName" /\ pc[p] = "done" /\ ResolvedAt(p, 1)) =>
              LET hex == SliceFrom(resp[p][1].data, 2)
              IN  IF RunsPastEnd(hex, PointedAt(hex, 0))
                  THEN ret[p].status = "error"
                  ELSE /\ ret[p].status = "ok"
                       /\ Len(ret[p].value) = DeclaredLength(hex, PointedAt(hex, 0))
        /\ (op[p] = "getEip712Domain" /\ pc[p] = "done" /\ Len(log[p]) = 1
                                      /\ ResolvedAt(p, 1)) =>
              LET hex == SliceFrom(resp[p][1].data, 2)
              IN  IF \/ RunsPastEnd(hex, PointedAt(hex, 1))
                     \/ RunsPastEnd(hex, PointedAt(hex, 2))
                  THEN ret[p].status = "error"
                  ELSE /\ ret[p].status = "ok"
                       /\ Len(ret[p].value.name) = DeclaredLength(hex, PointedAt(hex, 1))
                       /\ Len(ret[p].value.version) =
                             DeclaredLength(hex, PointedAt(hex, 2))

\* The bytes of the string block a name() answer's head word points to:
\* DeclaredLength bytes after the length word, one char code per byte.
BlockText(hex, at) ==
    LET data == Slice(hex, at + 64, at + 64 + 2 * DeclaredLength(hex, at))
    IN  [i \in 1..DeclaredLength(hex, at) |->
            HexVal(SubSeq(data, 2 * i - 1, 2 * i))]

\* C11 (as claimed): getTokenName follows the head word of the name() return
\* value: for an answer whose block lies within the data it returns the
\* bytes of that block, one character per byte, "USD Coin" for the encoding
\* of "USD Coin" at the offset 0x20.
C11_NameFollowsHeadWord ==
    \A p \in Procs :
        (op[p] = "getTokenName" /\ pc[p] = "done" /\ ResolvedAt(p, 1)) =>
            LET hex == SliceFrom(resp[p][1].data, 2)
            IN  ~RunsPastEnd(hex, PointedAt(hex, 0)) =>
                    /\ ret[p].status = "ok"
                    /\ ret[p].value = BlockText(hex, PointedAt(hex, 0))

\* C12: signDelegateTxWithTransaction called with a provider that is not
\* connected (isConnected false or publicKey null) has failed with 'Wallet not
\* connected' without invoking signTransaction; called with a connected
\* provider it has invoked signTransaction once and no more, and when that
\* resolved it returned the base64 of the signed transaction's bytes (Man is
\* TWFu, M is TQ==, Ma is TWE=) with the provider's address.
C12_SignOnlyWhenConnected ==
    \A p \in Procs :
        op[p] = "signDelegateTxWithTransaction" =>
            LET provider0 == args[p].solProvider
            IN  /\ (~provider0.isConnected \/ provider0.publicKey = Null) =>
                      /\ pc[p] = "done"
                      /\ ret[p].status = "error"
                      /\ ret[p].error = "Wallet not connected"
                      /\ log[p] = <<>>
                /\ (provider0.isConnected /\ provider0.publicKey # Null) =>
                      /\ log[p] = <<[method |-> "signTransaction", data |-> ""]>>
                      /\ ResolvedAt(p, 1) =>
                            /\ pc[p] = "done"
                            /\ ret[p].status = "ok"
                            /\ ret[p].value.signerAddress = provider0.publicKey
                            /\ ret[p].value.signedTx = uint8ArrayToBase64(resp[p][1].data)
                            /\ resp[p][1].data = <<77, 97, 110>> =>
                                  ret[p].value.signedTx = <<"T", "W", "F", "u">>
                            /\ resp[p][1].data = <<77>> =>
                                  ret[p].value.signedTx = <<"T", "Q", "=", "=">>
                            /\ resp[p][1].data = <<77, 97>> =>
                                  ret[p].value.signedTx = <<"T", "W", "E", "=">>
                            /\ resp[p][1].data = <<255, 0, 16, 131, 250>> =>
                                  ret[p].value.signedTx =
                                      <<"/", "w", "A", "Q", "g", "/", "o", "=">>

\* C12, its case: a connected provider signed, and the call returned the
\* base64 of five bytes with the provider's address.
C12_Witness ==
    \E p \in Procs :
        /\ op[p] = "signDelegateTxWithTransaction" /\ pc[p] = "done"
        /\ ret[p].status = "ok"
        /\ ret[p].value.signedTx = <<"/", "w", "A", "Q", "g", "/", "o", "=">>
        /\ ret[p].value.signerAddress = K1

\* The wallets, by position in the scan order, that are present, can be read,
\* report isConnected and hold the expected address.
Matching(expectedAddress) ==
    {i \in 1..5 : /\ win[i].present /\ ~win[i].throws
                  /\ win[i].isConnected /\ win[i].publicKey = expectedAddress}

\* C13: findConnectedProvider never fails; it returns null when no wallet
\* global is connected with the expected address, and otherwise the first
\* such wallet in the order phantom, solflare, okxwallet, coinbaseSolana,
\* backpack: the only one when there is exactly one, whatever the other
\* globals are (absent, disconnected, connected as another address, throwing).
C13_FirstMatchingProvider ==
    \A p \in Procs :
        (op[p] = "findConnectedProvider" /\ pc[p] = "done") =>
            LET match == Matching(args[p].expectedAddress)
                order == <<"phantom", "solflare", "okxwallet", "coinbaseSolana",
                           "backpack">>
            IN  /\ ret[p].status = "ok"
                /\ match = {} => ret[p].value = Null
                /\ match # {} =>
                      \E i \in match : /\ ret[p].value = order[i]
                                       /\ \A j \in match : i <= j
                /\ \A i \in 1..5 : match = {i} => ret[p].value = order[i]

\* C13, its case: coinbaseSolana alone is connected with the expected
\* address, behind a throwing phantom, an absent solflare and an okxwallet
\* connected as another address, and it is what the scan returned.
C13_Witness ==
    \E p \in Procs :
        /\ op[p] = "findConnectedProvider" /\ pc[p] = "done"
        /\ Matching(K1) = {4}
        /\ win[1].throws /\ ~win[2].present
        /\ win[3].isConnected /\ win[3].publicKey = K2
        /\ ret[p].value = "coinbaseSolana"

\* The wallets of the window w that findConnectedProvider would take.
MatchingIn(w, expectedAddress) ==
    {i \in 1..5 : /\ w[i].present /\ ~w[i].throws
                  /\ w[i].isConnected /\ w[i].publicKey = expectedAddress}

\* C14: connectSolanaWallet, when a wallet was already connected with the
\* expected address, has returned the first such wallet without any
\* connect(); otherwise its requests are connect() on phantom first (when
\* phantom is there) and connect() on solflare only once phantom is absent or
\* has answered without yielding the expected address, and nothing else; it
\* returns phantom only when phantom's connect() answered the expected
\* address, solflare only when solflare holds the expected address after its
\* connect() resolved, and it otherwise fails with the not-found error.
C14_ConnectPhantomThenSolflare ==
    \A p \in Procs :
        op[p] = "connectSolanaWallet" =>
            LET w0       == args[p].window
                expected == args[p].expectedAddress
                match    == MatchingIn(w0, expected)
                order    == <<"phantom", "solflare", "okxwallet", "coinbaseSolana",
                              "backpack">>
                yielded(i) == /\ ResolvedAt(p, i)
                              /\ resp[p][i].data = <<expected>>
            IN  /\ match # {} =>
                      /\ log[p] = <<>>
                      /\ pc[p] = "done" /\ ret[p].status = "ok"
                      /\ \E i \in match : /\ ret[p].value = order[i]
                                          /\ \A j \in match : i <= j
                /\ Len(log[p]) <= 2
                /\ \A i \in 1..Len(log[p]) :
                      /\ log[p][i].method = "connect"
                      /\ log[p][i].data \in {"phantom", "solflare"}
                      /\ log[p][i].data = "phantom" => (i = 1 /\ w0[1].present)
                      /\ log[p][i].data = "solflare" =>
                            /\ w0[2].present
                            /\ \/ i = 1 /\ ~w0[1].present
                               \/ i = 2 /\ log[p][1].data = "phantom"
                                        /\ Answered(p, 1) /\ ~yielded(1)
                /\ (match = {} /\ w0[1].present) =>
                      (Len(log[p]) >= 1 /\ log[p][1].data = "phantom")
                /\ (pc[p] = "done" /\ match = {}) =>
                      IF ret[p].status = "ok"
                      THEN \/ /\ ret[p].value = "phantom"
                              /\ log[p] = <<[method |-> "connect", data |-> "phantom"]>>
                              /\ yielded(1)
                           \/ /\ ret[p].value = "solflare"
                              /\ log[p][Len(log[p])].data = "solflare"
                              /\ ResolvedAt(p, Len(log[p]))
                              /\ win[2].publicKey = expected
                      ELSE /\ ret[p].error = "Could not find wallet with address"
                           /\ \A i \in 1..Len(log[p]) :
                                 /\ Answered(p, i)
                                 /\ log[p][i].data = "phantom" => ~yielded(i)

\* C14, its case: no wallet was connected, phantom's connect() was rejected,
\* solflare's connect() resolved with the expected address, and solflare was
\* returned.
C14_Witness ==
    \E p \in Procs :
        /\ op[p] = "connectSolanaWallet" /\ pc[p] = "done"
        /\ MatchingIn(args[p].window, K1) = {}
        /\ Len(log[p]) = 2
        /\ RejectedAt(p, 1)
        /\ resp[p][2] = Resolved(<<K1>>)
        /\ ret[p].status = "ok" /\ ret[p].value = "solflare"

\* The number a sequence of decimal digits denotes.
RECURSIVE DecVal(_)
DecVal(ds) ==
    IF ds = <<>> THEN 0 ELSE 10 * DecVal(SubSeq(ds, 1, Len(ds) - 1)) + ds[Len(ds)]

\* 2^256 - 1, 2^56 and 2^56 + 1 in decimal digits.
MaxUint256Digits ==
    <<1, 1, 5, 7, 9, 2, 0, 8, 9, 2, 3, 7, 3, 1, 6, 1, 9, 5, 4, 2, 3, 5, 7,
      0, 9, 8, 5, 0, 0, 8, 6, 8, 7, 9, 0, 7, 8, 5, 3, 2, 6, 9, 9, 8, 4, 6,
      6, 5, 6, 4, 0, 5, 6, 4, 0, 3, 9, 4, 5, 7, 5, 8, 4, 0, 0, 7, 9, 1, 3,
      1, 2, 9, 6, 3, 9, 9, 3, 5>>
Pow56Digits == <<7, 2, 0, 5, 7, 5, 9, 4, 0, 3, 7, 9, 2, 7, 9, 3, 6>>
Pow56Plus1Digits == <<7, 2, 0, 5, 7, 5, 9, 4, 0, 3, 7, 9, 2, 7, 9, 3, 7>>

\* C17: checkERC20Allowance returns the allowance word as its decimal digits
\* and isSufficient exactly when allowance >= requiredAmount as integers
\* (5000000 against 1000000: true; 999 against 1000: false; 2^56 against
\* 2^56 + 1: false; 2^256 - 1 against 2^56 + 1: true); isAllowanceSufficient
\* returns true exactly when amount >= requiredAmount and expiration >= now +
\* bufferSeconds, now being whole seconds and the buffer 1800 by default.
C17_SufficiencyIsExact ==
    \A p \in Procs :
        /\ (op[p] = "checkERC20Allowance" /\ pc[p] = "done" /\ ResolvedAt(p, 1)
                                          /\ Len(resp[p][1].data) = 66) =>
              LET word     == SliceFrom(resp[p][1].data, 2)
                  required == args[p].requiredAmount
                  small    == Len(StripZeros(word)) <= 7 /\ Len(required) <= 9
              IN  /\ ret[p].status = "ok"
                  /\ small =>
                        /\ DecVal(ret[p].value.allowance) = HexVal(StripZeros(word))
                        /\ ret[p].value.isSufficient =
                              (HexVal(StripZeros(word)) >= DecVal(required))
                  /\ (word = Zeros(58) \o <<4, 12, 4, 11, 4, 0>>) =>
                        /\ ret[p].value.allowance = <<5, 0, 0, 0, 0, 0, 0>>
                        /\ required = <<1, 0, 0, 0, 0, 0, 0>> =>
                              ret[p].value.isSufficient = TRUE
                  /\ (word = Zeros(61) \o <<3, 14, 7>> /\ required = <<1, 0, 0, 0>>) =>
                        ret[p].value.isSufficient = FALSE
                  /\ (word = Zeros(49) \o <<1>> \o Zeros(14)) =>
                        /\ ret[p].value.allowance = Pow56Digits
                        /\ ret[p].value.isSufficient = (required # Pow56Plus1Digits)
                  /\ (word = [i \in 1..64 |-> 15]) =>
                        /\ ret[p].value.allowance = MaxUint256Digits
                        /\ ret[p].value.isSufficient = TRUE
        /\ (op[p] = "isAllowanceSufficient" /\ pc[p] = "done") =>
              LET amount     == args[p].allowance.amount
                  amountOk   == IF Len(amount) > 7 THEN TRUE
                                ELSE HexVal(amount) >= HexVal(args[p].requiredAmount)
                  buffer     == IF args[p].bufferSeconds = <<>> THEN 1800
                                ELSE args[p].bufferSeconds[1]
                  freshUntil == (args[p].now \div 1000) + buffer
              IN  /\ ret[p].status = "ok"
                  /\ ret[p].value =
                        (amountOk /\ HexVal(args[p].allowance.expiration) >= freshUntil)

\* C17, its case: the amount 10000 covers the required 1000, the expiration
\* is 1799 s ahead, the buffer is the default, and isAllowanceSufficient
\* returned false.
C17_Witness ==
    \E p \in Procs :
        /\ op[p] = "isAllowanceSufficient" /\ pc[p] = "done"
        /\ args[p].bufferSeconds = <<>>
        /\ HexVal(args[p].allowance.amount) = 10000
        /\ HexVal(args[p].requiredAmount) = 1000
        /\ HexVal(args[p].allowance.expiration) = (args[p].now \div 1000) + 1799
        /\ ret[p].value = FALSE

\* The error with which the rejection of a request would surface.
RejectionOfEntry(e) ==
    IF e.method # "eth_call" THEN "rejected: " \o e.method
    ELSE IF e.data = NAME_SELECTOR THEN "rejected: name()"
    ELSE IF e.data = NONCES_SELECTOR THEN "rejected: nonces()"
    ELSE IF e.data \in {ALLOWANCE_SELECTOR, PERMIT2_ALLOWANCE_SELECTOR}
    THEN "rejected: allowance()"
    ELSE "rejected: eth_call"

\* The two requests whose failure has a documented fallback.
DocumentedFallback(e) ==
    e.method = "eth_call" /\ e.data \in {EIP712_DOMAIN_SELECTOR, VERSION_SELECTOR}

\* C15 (as claimed): when a request to the provider or the wallet was
\* rejected, other than the eip712Domain() and version() calls, the operation
\* that issued it has failed with that rejection, the rejected request is the
\* last one it issued, and it issued it once.
C15_RejectionsSurface ==
    \A p \in Procs : \A i \in 1..Len(log[p]) :
        (RejectedAt(p, i) /\ ~DocumentedFallback(log[p][i])) =>
            /\ pc[p] = "done"
            /\ ret[p].status = "error"
            /\ ret[p].error = RejectionOfEntry(log[p][i])
            /\ Len(log[p]) = i
            /\ \A j \in 1..Len(log[p]) : j # i => log[p][j] # log[p][i]

\* C16: a getEip712Domain call issues the eip712Domain() eth_call first; when
\* that resolved with data holding the chain id word the call has returned
\* with that one request; otherwise what follows is a prefix of name(),
\* version(), eth_chainId, each at most once: four requests at most in all.
C16_RequestCount ==
    \A p \in Procs :
        (op[p] = "getEip712Domain" /\ pc[p] # "idle") =>
            LET fallback == <<[method |-> "eth_call", data |-> NAME_SELECTOR],
                              [method |-> "eth_call", data |-> VERSION_SELECTOR],
                              [method |-> "eth_chainId", data |-> ""]>>
            IN  /\ Len(log[p]) \in 1..4
                /\ log[p][1] = [method |-> "eth_call", data |-> EIP712_DOMAIN_SELECTOR]
                /\ \A i \in 2..Len(log[p]) : log[p][i] = fallback[i - 1]
                /\ (ResolvedAt(p, 1) /\ Len(resp[p][1].data) > 2 + 192) =>
                      /\ Len(log[p]) = 1
                      /\ pc[p] = "done" /\ ret[p].status = "ok"
                /\ (Answered(p, 1) /\ Len(resp[p][1].data) <= 2 + 192) =>
                      Len(log[p]) >= 2

\* C16, its case: eip712Domain() was rejected and the call returned a domain
\* after name(), version() and eth_chainId, four requests in all.
C16_Witness ==
    \E p \in Procs :
        /\ op[p] = "getEip712Domain" /\ pc[p] = "done" /\ ret[p].status = "ok"
        /\ RejectedAt(p, 1)
        /\ Len(log[p]) = 4
        /\ log[p][4].method = "eth_chainId"

\* Whole seconds of a clock reading in ms, and an offset with its default.
UnixSeconds(T) == T \div 1000
OffsetOr(opt, d) == IF Len(opt) = 0 THEN d ELSE opt[1]

\* C18: with the clock at T ms when the call starts, the Permit that
\* signERC20Permit sends for signing has deadline floor(T/1000) +
\* deadlineMinutes*60 (60 minutes when left out) and the call returns that
\* deadline; the PermitSingle that signPermit2 sends has sigDeadline
\* floor(T/1000) + sigDeadlineMinutes*60 (5 when left out) and expiration
\* floor(T/1000) + expirationDays*86400 (30 when left out) and the call
\* returns both.
C18_DeadlinesFromClock ==
    \A p \in Procs :
        LET T == args[p].now
            returned == pc[p] = "done" /\ ret[p].status = "ok"
        IN  /\ (op[p] = "signERC20Permit" /\ sent[p].primaryType = "Permit") =>
                  LET deadline == UnixSeconds(T)
                                    + OffsetOr(args[p].deadlineMinutes, 60) * 60
                  IN  /\ sent[p].message.deadline = deadline
                      /\ returned => ret[p].value.permitSignature.deadline = deadline
            /\ (op[p] = "signPermit2" /\ sent[p].primaryType = "PermitSingle") =>
                  LET sigDeadline == UnixSeconds(T)
                                       + OffsetOr(args[p].sigDeadlineMinutes, 5) * 60
                      expiration  == UnixSeconds(T)
                                       + OffsetOr(args[p].expirationDays, 30) * 86400
                  IN  /\ sent[p].message.sigDeadline = sigDeadline
                      /\ sent[p].message.details.expiration = expiration
                      /\ returned =>
                            /\ ret[p].value.permitSingle.sigDeadline = sigDeadline
                            /\ ret[p].value.permitSingle.details.expiration = expiration

\* C18, its case: a signERC20Permit called at 1999 ms without deadlineMinutes
\* returned the deadline 1 + 3600 it had signed.
C18_Witness ==
    \E p \in Procs :
        /\ op[p] = "signERC20Permit" /\ pc[p] = "done" /\ ret[p].status = "ok"
        /\ args[p].now = 1999 /\ args[p].deadlineMinutes = <<>>
        /\ sent[p].message.deadline = 3601
        /\ ret[p].value.permitSignature.deadline = 3601

\* The versions and names the tokens of the model report.
TokenVersions == {Version2, Version11}
TokenTexts == {NameUS, NameUSDCoin}

\* C19: the Permit that signERC20Permit sends for signing carries, as
\* domain.version, the version the token reported: the one inside the answer
\* of eip712Domain(), or on the fallback the one version() answered, the
\* default "1" standing in only for a version() that was rejected.  Tokens
\* reporting different versions get different domain.version values.
C19_VersionIsResolved ==
    \A p \in Procs :
        (op[p] = "signERC20Permit" /\ sent[p].primaryType = "Permit") =>
            \A i \in 1..Len(resp[p]) :
                /\ log[p][i].data = EIP712_DOMAIN_SELECTOR =>
                      \A v \in TokenVersions, n \in TokenTexts :
                          resp[p][i] = Resolved(EncEip712Domain(n, v, 5)) =>
                              /\ sent[p].domain.version = v
                              /\ Len(log[p]) = i + 1
                /\ log[p][i].data = VERSION_SELECTOR =>
                      /\ \A v \in TokenVersions :
                            resp[p][i] = Resolved(EncStringReturn(v)) =>
                                sent[p].domain.version = v
                      /\ ~resp[p][i].ok =>
                            sent[p].domain.version = DEFAULT_PERMIT_VERSION

\* C19, its case: a token whose eip712Domain() reports the version "1.1" had
\* its Permit sent for signing with domain.version "1.1".
C19_Witness ==
    \E p \in Procs :
        /\ op[p] = "signERC20Permit" /\ sent[p].primaryType = "Permit"
        /\ \E i \in 1..Len(resp[p]) :
              /\ log[p][i].data = EIP712_DOMAIN_SELECTOR
              /\ resp[p][i] = Resolved(OtherDomain)
        /\ sent[p].domain.version = Version11
        /\ sent[p].domain.version # DEFAULT_PERMIT_VERSION

\* C20: isBlockhashValid answers true exactly when the time left until
\* expiresAt is more than the buffer, 10000 ms when the buffer is left out: an
\* expiry 5000 ms ahead is stale under a buffer of 10000, one 20000 ms ahead
\* is fresh, and one exactly at the buffer's end is stale.
C20_BlockhashFreshness ==
    \A p \in Procs :
        (op[p] = "isBlockhashValid" /\ pc[p] = "done") =>
            LET left   == args[p].expiresAt - args[p].now
                buffer == IF Len(args[p].bufferMs) = 0 THEN 10000
                          ELSE args[p].bufferMs[1]
            IN  /\ ret[p].status = "ok"
                /\ ret[p].value \in BOOLEAN
                /\ ret[p].value <=> left > buffer
                /\ (left = 5000 /\ buffer = 10000) => ret[p].value = FALSE
                /\ (left = 20000 /\ buffer = 10000) => ret[p].value = TRUE
                /\ left = buffer => ret[p].value = FALSE

\* C20, its case: with the buffer left out, an expiry exactly 10000 ms ahead
\* was answered as stale.
C20_Witness ==
    \E p \in Procs :
        /\ op[p] = "isBlockhashValid" /\ pc[p] = "done"
        /\ args[p].bufferMs = <<>>
        /\ args[p].expiresAt = args[p].now + 10000
        /\ ret[p].value = FALSE

\* C21: decoding the base64 text that uint8ArrayToBase64 gives for a byte
\* array gives that array back: base64ToUint8Array does not throw for it and
\* answers an array of the same length with the same byte at every index,
\* the empty array and the bytes 0x00 and 0xff included.
C21_Base64RoundTrip ==
    \A p \in Procs :
        /\ (op[p] = "base64ToUint8Array" /\ pc[p] = "done") =>
              \A b \in ByteArrays :
                  args[p].base64 = uint8ArrayToBase64(b) =>
                      /\ ret[p].status = "ok"
                      /\ Len(ret[p].value) = Len(b)
                      /\ \A i \in 1..Len(b) : ret[p].value[i] = b[i]
        /\ (op[p] = "uint8ArrayToBase64" /\ pc[p] = "done") =>
              /\ ret[p].status = "ok"
              /\ Len(ret[p].value) = 4 * ((Len(args[p].bytes) + 2) \div 3)
              /\ base64ToUint8Array(ret[p].value) = args[p].bytes

\* C21, its case: the text of the array 0x00 0xff 0x4d 0x83, "AP9Ngw==", was
\* decoded back to those four bytes.
C21_Witness ==
    \E p \in Procs :
        /\ op[p] = "base64ToUint8Array" /\ pc[p] = "done"
        /\ args[p].base64 = <<"A", "P", "9", "N", "g", "w", "=", "=">>
        /\ args[p].base64 = uint8ArrayToBase64(<<0, 255, 77, 131>>)
        /\ ret[p].value = <<0, 255, 77, 131>>

\* Request i of flow p resolved with a list of one account or more.
GaveAccounts(p, i) ==
    /\ ResolvedAt(p, i)
    /\ log[p][i].method \in {"eth_accounts", "eth_requestAccounts"}
    /\ Len(resp[p][i].data) > 0

\* Request i of flow p ended the resolution of the domain: eip712Domain()
\* resolved and nothing was asked of the token after it, or eth_chainId
\* resolved at the end of the fallback.
GaveDomain(p, i) ==
    /\ ResolvedAt(p, i)
    /\ \/ log[p][i] = [method |-> "eth_call", data |-> EIP712_DOMAIN_SELECTOR]
       \/ log[p][i].method = "eth_chainId"

\* C22: signERC20Permit requests eth_signTypedData_v4 at most once and as its
\* last request, after a request for the accounts resolved with an account
\* and after the request that ended the domain's resolution resolved; when
\* eth_accounts and eth_requestAccounts both resolve with an empty list it
\* fails with 'No connected accounts', these two being its only requests.
C22_SignIsLastAndOnce ==
    \A p \in Procs :
        op[p] = "signERC20Permit" =>
            /\ \A i \in 1..Len(log[p]) :
                  log[p][i].method = "eth_signTypedData_v4" =>
                      /\ i = Len(log[p])
                      /\ i >= 3
                      /\ \A j \in 1..(i - 1) : Answered(p, j)
                      /\ GaveAccounts(p, 1) \/ GaveAccounts(p, 2)
                      /\ GaveDomain(p, i - 1)
            /\ (/\ ResolvedAt(p, 1) /\ resp[p][1].data = <<>>
                /\ ResolvedAt(p, 2) /\ resp[p][2].data = <<>>) =>
                  /\ pc[p] = "done"
                  /\ ret[p] = [status |-> "error", error |-> "No connected accounts",
                               value |-> <<>>]
                  /\ Len(log[p]) = 2
                  /\ \A i \in 1..2 :
                        log[p][i].method \notin {"eth_call", "eth_signTypedData_v4"}
                  /\ sent[p] = NoTypedData

\* C22, its case: eth_accounts had no account, eth_requestAccounts gave one,
\* eip712Domain() resolved, and the signature was requested fourth and last
\* and returned.
C22_Witness ==
    \E p \in Procs :
        /\ op[p] = "signERC20Permit" /\ pc[p] = "done" /\ ret[p].status = "ok"
        /\ Len(log[p]) = 4
        /\ resp[p][1] = Resolved(<<>>)
        /\ GaveAccounts(p, 2)
        /\ GaveDomain(p, 3)
        /\ log[p][4].method = "eth_signTypedData_v4"

=============================================================================
